---- MODULE Spec2Model ----
(***************************************************************************)
(* A model of OCIPolicyAnalyzer (oci-policy-analyzer.py): the compartment  *)
(* name resolver with its cache, the statement translator (re.sub over the *)
(* compartment pattern) and the pipeline driver filter_policies_for_groups.*)
(* Strings are sequences of one-character strings, so that lower-casing,   *)
(* substring search and the regular expression are computed character by   *)
(* character, as Python computes them on ASCII text.                       *)
(***************************************************************************)
EXTENDS Integers, Sequences, FiniteSets, TLC

VARIABLES
    compartment_cache,        \* self.compartment_cache
    domains_cache,            \* self.domains_cache
    pc,                       \* where the running call is: idle, policy, statement, scan, users, done, raised
    policies,                 \* filter_policies_for_groups: its argument
    group_names,              \* filter_policies_for_groups: its argument
    pidx,                     \* index of the policy the outer loop is at
    sidx,                     \* index of the statement the inner loop is at
    policy_compartment_name,  \* the local of the outer loop
    relevant_policies,        \* the result list being built
    emitted,                  \* for each result tuple, the <<policy, statement>> indices it came from
    scan,                     \* analyze_user_policies: the compartment ids still to scan
    all_relevant_policies,    \* analyze_user_policies: the statements collected so far
    users,                    \* get_identity_domain_users: the list being built
    start_index,              \* get_identity_domain_users: the index the next page starts at
    requests,                 \* the list_users calls of the running get_identity_domain_users
    last,                     \* what the last step did (its argument, result, external calls)
    prev                      \* the get_compartment_name call right before the last one

vars == <<compartment_cache, domains_cache, pc, policies, group_names, pidx, sidx,
          policy_compartment_name, relevant_policies, emitted, scan, all_relevant_policies,
          users, start_index, requests, last, prev>>

\* the state of the policy side: the compartment cache and the locals of a running
\* filter_policies_for_groups or analyze_user_policies
policy_vars == <<compartment_cache, policies, group_names, pidx, sidx,
                 policy_compartment_name, relevant_policies, emitted, scan,
                 all_relevant_policies>>

\* the state of the identity-domain side: the domain cache and the locals of a
\* running get_identity_domain_users
domain_vars == <<domains_cache, users, start_index, requests>>

(***************************************************************************)
(* Bounds of the model.                                                    *)
(***************************************************************************)
\* longest policy list handed to filter_policies_for_groups
MaxPolicies == 2
\* most compartment references composed into one statement for translate
MaxRefs == 2

(***************************************************************************)
(* Characters and strings.                                                 *)
(***************************************************************************)
LowerLetters == <<"a", "b", "c", "d", "e", "f", "g", "h", "i", "j", "k", "l", "m", "n", "o", "p", "q", "r", "s", "t", "u", "v", "w", "x", "y", "z">>

UpperLetters == <<"A", "B", "C", "D", "E", "F", "G", "H", "I", "J", "K", "L", "M", "N", "O", "P", "Q", "R", "S", "T", "U", "V", "W", "X", "Y", "Z">>

Digits == {"0", "1", "2", "3", "4", "5", "6", "7", "8", "9"}

Range(f) == {f[i] : i \in DOMAIN f}

\* the lower-case letter of every upper-case ASCII letter
LowerOf == [c \in Range(UpperLetters) |->
               LowerLetters[CHOOSE i \in DOMAIN UpperLetters : UpperLetters[i] = c]]

\* str.lower() on one ASCII character
LowerChar(c) == IF c \in DOMAIN LowerOf THEN LowerOf[c] ELSE c

\* str.lower()
LowerStr(s) == [i \in 1..Len(s) |-> LowerChar(s[i])]

\* Python's `needle in hay` on strings
Contains(hay, needle) ==
    \E i \in 0..(Len(hay) - Len(needle)) :
        \A k \in 1..Len(needle) : hay[i + k] = needle[k]

\* regex \s of a str pattern, on ASCII: space, \t, \n, \x0b, \f, \r and \x1c..\x1f
WhiteSpace == {" ", "\t", "\n", "", "\f", "\r", "", "", "", ""}

IsSpace(c) == c \in WhiteSpace

\* regex class [a-zA-Z0-9\._-]
IdChars == Range(LowerLetters) \cup Range(UpperLetters) \cup Digits \cup {".", "_", "-"}

IsIdChar(c) == c \in IdChars

W_compartment == <<"c", "o", "m", "p", "a", "r", "t", "m", "e", "n", "t">>

W_ocid_prefix == <<"o", "c", "i", "d", "1", ".", "c", "o", "m", "p", "a", "r", "t", "m", "e", "n", "t", ".">>

W_group == <<"g", "r", "o", "u", "p">>

W_root == <<"r", "o", "o", "t">>

SP == <<" ">>

SQ == <<"'">>

DQ == <<"\"">>

(***************************************************************************)
(* The tenancy and the directory service behind identity_client.           *)
(***************************************************************************)
tenancy_id == <<"o", "c", "i", "d", "1", ".", "t", "e", "n", "a", "n", "c", "y", ".", "t">>

CompA == W_ocid_prefix \o <<"a">>

CompB == W_ocid_prefix \o <<"b">>

CompX == W_ocid_prefix \o <<"x">>

\* compartments whose names bear on translating a translated text once more
CompTeam == W_ocid_prefix \o <<"m">>

CompWord == W_ocid_prefix \o <<"w">>

CompBlank == W_ocid_prefix \o <<"s">>

CompLike == W_ocid_prefix \o <<"i">>

\* the compartments the directory knows, each with its (immutable) name: 'Fin',
\* 'Ops', 'My Team', 'MyCompartment', ' ' and 'ocid1.compartment.a'
Directory ==
    (CompA :> <<"F", "i", "n">>) @@ (CompB :> <<"O", "p", "s">>)
        @@ (CompTeam :> <<"M", "y", " ", "T", "e", "a", "m">>)
        @@ (CompWord :> <<"M", "y", "C", "o", "m", "p", "a", "r", "t", "m", "e", "n", "t">>)
        @@ (CompBlank :> SP)
        @@ (CompLike :> CompA)

\* identity_client.get_compartment(compartment_id): the name, or an exception
\* (unknown id, or `ok` false: no permission, transient error)
IdentityGetCompartment(compartment_id, ok) ==
    IF ok /\ compartment_id \in DOMAIN Directory
    THEN [raised |-> FALSE, name |-> Directory[compartment_id]]
    ELSE [raised |-> TRUE, name |-> <<>>]

\* self.compartment_cache = {}
EmptyCache == [x \in {} |-> <<>>]

CachePut(cache, k, v) == [x \in (DOMAIN cache) \cup {k} |-> IF x = k THEN v ELSE cache[x]]

\* one record of a call of the external collaborator
ExtCall(id, r) == [id |-> id, ok |-> ~r.raised, name |-> r.name]

\* get_compartment_name without the try/except: the lookup's exception escapes
GetCompartmentName_NoCatch(cache, compartment_id, ok) ==
    IF compartment_id \in DOMAIN cache
    THEN [name |-> cache[compartment_id], cache |-> cache, ext |-> <<>>, raised |-> FALSE]
    ELSE IF compartment_id = tenancy_id
    THEN [name |-> W_root, cache |-> CachePut(cache, compartment_id, W_root),
          ext |-> <<>>, raised |-> FALSE]
    ELSE LET r == IdentityGetCompartment(compartment_id, ok) IN
         IF r.raised
         THEN [name |-> compartment_id, cache |-> cache,
               ext |-> <<ExtCall(compartment_id, r)>>, raised |-> TRUE]
         ELSE [name |-> r.name, cache |-> CachePut(cache, compartment_id, r.name),
               ext |-> <<ExtCall(compartment_id, r)>>, raised |-> FALSE]

\* get_compartment_name that looks the tenancy up like any other compartment
GetCompartmentName_NoRoot(cache, compartment_id, ok) ==
    IF compartment_id \in DOMAIN cache
    THEN [name |-> cache[compartment_id], cache |-> cache, ext |-> <<>>, raised |-> FALSE]
    ELSE LET r == IdentityGetCompartment(compartment_id, ok) IN
         IF r.raised
         THEN [name |-> compartment_id, cache |-> cache,
               ext |-> <<ExtCall(compartment_id, r)>>, raised |-> FALSE]
         ELSE [name |-> r.name, cache |-> CachePut(cache, compartment_id, r.name),
               ext |-> <<ExtCall(compartment_id, r)>>, raised |-> FALSE]

\* get_compartment_name that never reads its cache
GetCompartmentName_NoCacheRead(cache, compartment_id, ok) ==
    IF compartment_id = tenancy_id
    THEN [name |-> W_root, cache |-> CachePut(cache, compartment_id, W_root),
          ext |-> <<>>, raised |-> FALSE]
    ELSE LET r == IdentityGetCompartment(compartment_id, ok) IN
         IF r.raised
         THEN [name |-> compartment_id, cache |-> cache,
               ext |-> <<ExtCall(compartment_id, r)>>, raised |-> FALSE]
         ELSE [name |-> r.name, cache |-> CachePut(cache, compartment_id, r.name),
               ext |-> <<ExtCall(compartment_id, r)>>, raised |-> FALSE]

\* get_compartment_name that drops the whole cache when a lookup fails
GetCompartmentName_ResetOnFailure(cache, compartment_id, ok) ==
    IF compartment_id \in DOMAIN cache
    THEN [name |-> cache[compartment_id], cache |-> cache, ext |-> <<>>, raised |-> FALSE]
    ELSE IF compartment_id = tenancy_id
    THEN [name |-> W_root, cache |-> CachePut(cache, compartment_id, W_root),
          ext |-> <<>>, raised |-> FALSE]
    ELSE LET r == IdentityGetCompartment(compartment_id, ok) IN
         IF r.raised
         THEN [name |-> compartment_id, cache |-> EmptyCache,
               ext |-> <<ExtCall(compartment_id, r)>>, raised |-> FALSE]
         ELSE [name |-> r.name, cache |-> CachePut(cache, compartment_id, r.name),
               ext |-> <<ExtCall(compartment_id, r)>>, raised |-> FALSE]

\* get_compartment_name that also stores the fallback of a failed lookup
GetCompartmentName_CacheFailure(cache, compartment_id, ok) ==
    IF compartment_id \in DOMAIN cache
    THEN [name |-> cache[compartment_id], cache |-> cache, ext |-> <<>>, raised |-> FALSE]
    ELSE IF compartment_id = tenancy_id
    THEN [name |-> W_root, cache |-> CachePut(cache, compartment_id, W_root),
          ext |-> <<>>, raised |-> FALSE]
    ELSE LET r == IdentityGetCompartment(compartment_id, ok) IN
         IF r.raised
         THEN [name |-> compartment_id,
               cache |-> CachePut(cache, compartment_id, compartment_id),
               ext |-> <<ExtCall(compartment_id, r)>>, raised |-> FALSE]
         ELSE [name |-> r.name, cache |-> CachePut(cache, compartment_id, r.name),
               ext |-> <<ExtCall(compartment_id, r)>>, raised |-> FALSE]

\* get_compartment_name that empties the cache before storing a new name
GetCompartmentName_Evict(cache, compartment_id, ok) ==
    IF compartment_id \in DOMAIN cache
    THEN [name |-> cache[compartment_id], cache |-> cache, ext |-> <<>>, raised |-> FALSE]
    ELSE IF compartment_id = tenancy_id
    THEN [name |-> W_root, cache |-> CachePut(EmptyCache, compartment_id, W_root),
          ext |-> <<>>, raised |-> FALSE]
    ELSE LET r == IdentityGetCompartment(compartment_id, ok) IN
         IF r.raised
         THEN [name |-> compartment_id, cache |-> cache,
               ext |-> <<ExtCall(compartment_id, r)>>, raised |-> FALSE]
         ELSE [name |-> r.name, cache |-> CachePut(EmptyCache, compartment_id, r.name),
               ext |-> <<ExtCall(compartment_id, r)>>, raised |-> FALSE]

\* get_compartment_name whose except branch returns an empty name
GetCompartmentName_EmptyFallback(cache, compartment_id, ok) ==
    IF compartment_id \in DOMAIN cache
    THEN [name |-> cache[compartment_id], cache |-> cache, ext |-> <<>>, raised |-> FALSE]
    ELSE IF compartment_id = tenancy_id
    THEN [name |-> W_root, cache |-> CachePut(cache, compartment_id, W_root),
          ext |-> <<>>, raised |-> FALSE]
    ELSE LET r == IdentityGetCompartment(compartment_id, ok) IN
         IF r.raised
         THEN [name |-> <<>>, cache |-> cache,
               ext |-> <<ExtCall(compartment_id, r)>>, raised |-> FALSE]
         ELSE [name |-> r.name, cache |-> CachePut(cache, compartment_id, r.name),
               ext |-> <<ExtCall(compartment_id, r)>>, raised |-> FALSE]

\* get_compartment_name(compartment_id) in cache state `cache`; `ok` is the
\* directory's answer should it be asked.  Result: the returned name, the
\* cache afterwards, the external calls made, and whether an exception escaped.
GetCompartmentName(cache, compartment_id, ok) ==
    IF compartment_id \in DOMAIN cache
    THEN [name |-> cache[compartment_id], cache |-> cache, ext |-> <<>>, raised |-> FALSE]
    ELSE IF compartment_id = tenancy_id
    THEN [name |-> W_root, cache |-> CachePut(cache, compartment_id, W_root),
          ext |-> <<>>, raised |-> FALSE]
    ELSE LET r == IdentityGetCompartment(compartment_id, ok) IN
         IF r.raised
         THEN [name |-> compartment_id, cache |-> cache,
               ext |-> <<ExtCall(compartment_id, r)>>, raised |-> FALSE]
         ELSE [name |-> r.name, cache |-> CachePut(cache, compartment_id, r.name),
               ext |-> <<ExtCall(compartment_id, r)>>, raised |-> FALSE]

(***************************************************************************)
(* translate_compartment_ids_in_statement: re.sub of                       *)
(*   compartment\s+(ocid1\.compartment\.[a-zA-Z0-9\._-]+)   (IGNORECASE)   *)
(***************************************************************************)
\* does the literal w (lower case) match at position i, ignoring case
LiteralAt(s, i, w) ==
    /\ i + Len(w) - 1 <= Len(s)
    /\ \A k \in 1..Len(w) : LowerChar(s[i + k - 1]) = w[k]

\* the literal matched with the case of its letters: the pattern without re.IGNORECASE
LiteralAt_CaseSensitive(s, i, w) ==
    /\ i + Len(w) - 1 <= Len(s)
    /\ \A k \in 1..Len(w) : s[i + k - 1] = w[k]

RECURSIVE SpaceEnd(_, _)
\* \s+ is greedy: the first position at or after i that holds no whitespace
SpaceEnd(s, i) ==
    IF i <= Len(s) /\ IsSpace(s[i]) THEN SpaceEnd(s, i + 1) ELSE i

RECURSIVE IdEnd(_, _)
\* [a-zA-Z0-9\._-]+ is greedy: the first position at or after i outside the class
IdEnd(s, i) ==
    IF i <= Len(s) /\ IsIdChar(s[i]) THEN IdEnd(s, i + 1) ELSE i

\* the pattern without the id prefix: compartment\s+([a-zA-Z0-9\._-]+)
MatchAt_AnyToken(s, i) ==
    LET a == i + Len(W_compartment)
        b == SpaceEnd(s, a)
        d == IdEnd(s, b)
    IN  IF /\ LiteralAt(s, i, W_compartment)
           /\ b > a
           /\ d > b
        THEN [found |-> TRUE, idStart |-> b, end |-> d]
        ELSE [found |-> FALSE, idStart |-> 0, end |-> 0]

\* the match of compartment_pattern that starts at position i, if there is one:
\* group(1) is s[idStart .. end-1] and the match is s[i .. end-1]
MatchAt(s, i) ==
    LET a == i + Len(W_compartment)
        b == SpaceEnd(s, a)
        c == b + Len(W_ocid_prefix)
        d == IdEnd(s, c)
    IN  IF /\ LiteralAt(s, i, W_compartment)
           /\ b > a
           /\ LiteralAt(s, b, W_ocid_prefix)
           /\ d > c
        THEN [found |-> TRUE, idStart |-> b, end |-> d]
        ELSE [found |-> FALSE, idStart |-> 0, end |-> 0]

\* replace_compartment that keeps the matched text up to the id
ReplaceCompartment_KeepWord(s, i, m, compartment_name) ==
    SubSeq(s, i, m.idStart - 1) \o compartment_name

\* replace_compartment with a space after the name
ReplaceCompartment_TrailingSpace(s, i, m, compartment_name) ==
    W_compartment \o SP \o compartment_name \o SP

\* replace_compartment(match): the replacement text, given the resolved name
ReplaceCompartment(s, i, m, compartment_name) ==
    W_compartment \o SP \o compartment_name

\* the state threaded through one re.sub: the output so far, the cache, the
\* external calls made and the names the resolver returned, one per match
SubStart(cache) ==
    [text |-> <<>>, cache |-> cache, ext |-> <<>>, rets |-> <<>>, raised |-> FALSE]

RECURSIVE SubFrom_FirstOnly(_, _, _, _)
\* re.sub(..., count=1): only the first match is replaced
SubFrom_FirstOnly(s, pos, fails, st) ==
    IF pos > Len(s) \/ st.raised THEN st
    ELSE LET m == MatchAt(s, pos) IN
         IF m.found /\ st.rets = <<>>
         THEN LET id == SubSeq(s, m.idStart, m.end - 1)
                  r  == GetCompartmentName(st.cache, id, (Len(st.ext) + 1) \notin fails)
              IN  SubFrom_FirstOnly(s, m.end, fails,
                      [text   |-> st.text \o ReplaceCompartment(s, pos, m, r.name),
                       cache  |-> r.cache,
                       ext    |-> st.ext \o r.ext,
                       rets   |-> Append(st.rets, r.name),
                       raised |-> r.raised])
         ELSE SubFrom_FirstOnly(s, pos + 1, fails,
                      [st EXCEPT !.text = Append(st.text, s[pos])])

RECURSIVE SubFrom(_, _, _, _)
\* re.sub from position pos on: leftmost matches, left to right, none overlapping;
\* the n-th external call of this pass fails iff n \in fails
SubFrom(s, pos, fails, st) ==
    IF pos > Len(s) \/ st.raised THEN st
    ELSE LET m == MatchAt(s, pos) IN
         IF m.found
         THEN LET id == SubSeq(s, m.idStart, m.end - 1)
                  r  == GetCompartmentName(st.cache, id, (Len(st.ext) + 1) \notin fails)
              IN  SubFrom(s, m.end, fails,
                      [text   |-> st.text \o ReplaceCompartment(s, pos, m, r.name),
                       cache  |-> r.cache,
                       ext    |-> st.ext \o r.ext,
                       rets   |-> Append(st.rets, r.name),
                       raised |-> r.raised])
         ELSE SubFrom(s, pos + 1, fails,
                      [st EXCEPT !.text = Append(st.text, s[pos])])

\* translate_compartment_ids_in_statement(statement) in cache state `cache`
TranslateCompartmentIdsInStatement(cache, statement, fails) ==
    SubFrom(statement, 1, fails, SubStart(cache))

(***************************************************************************)
(* Inputs: statements, groups and policies.                                *)
(***************************************************************************)
\* 'group Admins in '
StHead ==
    <<"g", "r", "o", "u", "p", " ", "A", "d", "m", "i", "n", "s", " ", "i", "n", " ">>

\* 'compartment ocid1.compartment.a, '
RefA ==
    <<"c", "o", "m", "p", "a", "r", "t", "m", "e", "n", "t", " ", "o", "c", "i", "d", "1", ".",
      "c", "o", "m", "p", "a", "r", "t", "m", "e", "n", "t", ".", "a", ",", " ">>

\* 'Compartment \nocid1.compartment.b '
RefB ==
    <<"C", "o", "m", "p", "a", "r", "t", "m", "e", "n", "t", " ", "\n", "o", "c", "i", "d", "1",
      ".", "c", "o", "m", "p", "a", "r", "t", "m", "e", "n", "t", ".", "b", " ">>

\* 'COMPARTMENT\tOCID1.COMPARTMENT.A;'
RefUpper ==
    <<"C", "O", "M", "P", "A", "R", "T", "M", "E", "N", "T", "\t", "O", "C", "I", "D", "1",
      ".", "C", "O", "M", "P", "A", "R", "T", "M", "E", "N", "T", ".", "A", ";">>

\* 'compartment ocid1.compartment.a.'
RefDot ==
    <<"c", "o", "m", "p", "a", "r", "t", "m", "e", "n", "t", " ", "o", "c", "i", "d", "1", ".",
      "c", "o", "m", "p", "a", "r", "t", "m", "e", "n", "t", ".", "a", ".">>

\* 'compartment Fin, '
RefName ==
    <<"c", "o", "m", "p", "a", "r", "t", "m", "e", "n", "t", " ", "F", "i", "n", ",", " ">>

\* 'subcompartment ocid1.compartment.b '
RefSub ==
    <<"s", "u", "b", "c", "o", "m", "p", "a", "r", "t", "m", "e", "n", "t", " ", "o", "c", "i",
      "d", "1", ".", "c", "o", "m", "p", "a", "r", "t", "m", "e", "n", "t", ".", "b", " ">>

\* 'Allow group Admins in compartment ocid1.compartment.a'
StAdminsA ==
    <<"A", "l", "l", "o", "w", " ", "g", "r", "o", "u", "p", " ", "A", "d", "m", "i", "n", "s",
      " ", "i", "n", " ", "c", "o", "m", "p", "a", "r", "t", "m", "e", "n", "t", " ", "o", "c",
      "i", "d", "1", ".", "c", "o", "m", "p", "a", "r", "t", "m", "e", "n", "t", ".", "a">>

\* 'Allow group Viewers in tenancy'
StViewers ==
    <<"A", "l", "l", "o", "w", " ", "g", "r", "o", "u", "p", " ", "V", "i", "e", "w", "e", "r",
      "s", " ", "i", "n", " ", "t", "e", "n", "a", "n", "c", "y">>

\* "allow GROUP 'ops' in Compartment ocid1.compartment.b, compartment ocid1.compartment.a"
StOpsQuoted ==
    <<"a", "l", "l", "o", "w", " ", "G", "R", "O", "U", "P", " ", "'", "o", "p", "s", "'", " ",
      "i", "n", " ", "C", "o", "m", "p", "a", "r", "t", "m", "e", "n", "t", " ", "o", "c", "i",
      "d", "1", ".", "c", "o", "m", "p", "a", "r", "t", "m", "e", "n", "t", ".", "b", ",", " ",
      "c", "o", "m", "p", "a", "r", "t", "m", "e", "n", "t", " ", "o", "c", "i", "d", "1", ".",
      "c", "o", "m", "p", "a", "r", "t", "m", "e", "n", "t", ".", "a">>

\* 'Allow group "Admins" in tenancy'
StAdminsDQ ==
    <<"A", "l", "l", "o", "w", " ", "g", "r", "o", "u", "p", " ", "\"", "A", "d", "m", "i",
      "n", "s", "\"", " ", "i", "n", " ", "t", "e", "n", "a", "n", "c", "y">>

\* 'Allow group Admins, group OPS in compartment ocid1.compartment.x'
StBothX ==
    <<"A", "l", "l", "o", "w", " ", "g", "r", "o", "u", "p", " ", "A", "d", "m", "i", "n", "s",
      ",", " ", "g", "r", "o", "u", "p", " ", "O", "P", "S", " ", "i", "n", " ", "c", "o", "m",
      "p", "a", "r", "t", "m", "e", "n", "t", " ", "o", "c", "i", "d", "1", ".", "c", "o", "m",
      "p", "a", "r", "t", "m", "e", "n", "t", ".", "x">>

\* "Allow group 'Admins in tenancy"
StMalformed ==
    <<"A", "l", "l", "o", "w", " ", "g", "r", "o", "u", "p", " ", "'", "A", "d", "m", "i", "n",
      "s", " ", "i", "n", " ", "t", "e", "n", "a", "n", "c", "y">>

\* 'Allow group AdminsOld in compartment ocid1.compartment.b'
StAdminsOld ==
    <<"A", "l", "l", "o", "w", " ", "g", "r", "o", "u", "p", " ", "A", "d", "m", "i", "n", "s",
      "O", "l", "d", " ", "i", "n", " ", "c", "o", "m", "p", "a", "r", "t", "m", "e", "n", "t",
      " ", "o", "c", "i", "d", "1", ".", "c", "o", "m", "p", "a", "r", "t", "m", "e", "n", "t",
      ".", "b">>

\* 'Admins'
GAdmins ==
    <<"A", "d", "m", "i", "n", "s">>

\* 'OPS'
GOps ==
    <<"O", "P", "S">>

\* the ids get_compartment_name is called with directly
ResolveIds == {tenancy_id, CompA, CompB, CompX}

\* pieces of statement text that hold, or nearly hold, a compartment reference
Refs == {RefA, RefB, RefUpper, RefDot, RefName, RefSub}

RECURSIVE RefTexts(_)
\* the concatenations of exactly n pieces
RefTexts(n) ==
    IF n = 0 THEN {<<>>}
    ELSE {t \o r : t \in RefTexts(n - 1), r \in Refs}

\* the statements translate_compartment_ids_in_statement is called with directly
TranslateStatements == {StHead \o t : t \in UNION {RefTexts(n) : n \in 0..MaxRefs}}

\* 'compartment <id> '
NameRef(id) == W_compartment \o SP \o id \o SP

\* a reference to each compartment whose name is written into the text
NameLeads == {NameRef(id) : id \in {CompA, CompTeam, CompWord, CompBlank, CompLike}}
                 \cup {RefB, RefUpper}

\* what follows the reference: nothing, 'ocid1.compartment.b,' (an id without the
\* word before it) or 'compartment ocid1.compartment.x'
NameTails == {<<>>, CompB \o <<",">>, W_compartment \o SP \o CompX}

\* statements whose translation puts a resolved name next to other text
NameStatements == {StHead \o p \o q : p \in NameLeads, q \in NameTails}

RECURSIVE NumMatches(_, _)
\* how many matches re.sub finds in s from position pos on
NumMatches(s, pos) ==
    IF pos > Len(s) THEN 0
    ELSE LET m == MatchAt(s, pos) IN
         IF m.found THEN 1 + NumMatches(s, m.end) ELSE NumMatches(s, pos + 1)

\* which of the external calls of one pass over the statement fail: the pass
\* makes at most one call per match
FailSets(statement) == SUBSET (1..NumMatches(statement, 1))

GroupNames == {GAdmins, GOps}

\* the group_names arguments
GroupSets == SUBSET GroupNames

\* oci.identity.models.Policy: name, compartment_id, statements
Policy1 == [name |-> "P1", compartment_id |-> tenancy_id,
            statements |-> <<StAdminsA, StViewers, StBothX>>]

Policy2 == [name |-> "P2", compartment_id |-> CompA,
            statements |-> <<StOpsQuoted, StAdminsDQ>>]

Policy3 == [name |-> "P3", compartment_id |-> CompX,
            statements |-> <<StAdminsOld, StMalformed>>]

Policy4 == [name |-> "P4", compartment_id |-> CompB, statements |-> <<>>]

PolicySet == {Policy1, Policy2, Policy3, Policy4}

\* the policies arguments: every list of at most MaxPolicies different policies
PolicyLists ==
    UNION {{ps \in [1..n -> PolicySet] : \A i, j \in 1..n : i # j => ps[i] # ps[j]} :
              n \in 0..MaxPolicies}

\* the orders in which a for loop may iterate the set G
Orders(G) ==
    {o \in [1..Cardinality(G) -> G] : \A i, j \in DOMAIN o : i # j => o[i] # o[j]}

(***************************************************************************)
(* filter_policies_for_groups: the body of the statement loop.             *)
(***************************************************************************)
\* group_patterns built from the group name as given, not lower-cased
GroupPatterns_NoLower(group_name) ==
    << W_group \o SP \o group_name,
       W_group \o SP \o SQ \o group_name \o SQ,
       W_group \o SP \o DQ \o group_name \o DQ >>

\* group_patterns of one group name
GroupPatterns(group_name) ==
    << W_group \o SP \o LowerStr(group_name),
       W_group \o SP \o SQ \o LowerStr(group_name) \o SQ,
       W_group \o SP \o DQ \o LowerStr(group_name) \o DQ >>

\* any(pattern in statement_lower for pattern in group_patterns)
AnyPatternIn(statement_lower, group_patterns) ==
    \E k \in DOMAIN group_patterns : Contains(statement_lower, group_patterns[k])

\* what the loop over the groups has done so far for one statement
LoopStart(cache) ==
    [appended |-> <<>>, cache |-> cache, ext |-> <<>>, rets |-> <<>>, raised |-> FALSE]

\* a hit that resolves the policy's compartment again instead of using the name the
\* policy loop holds
Hit_ResolvePerStatement(acc, policy, comp_name, statement, fails) ==
    LET t == TranslateCompartmentIdsInStatement(acc.cache, statement, fails)
        n == GetCompartmentName(t.cache, policy.compartment_id, TRUE)
    IN
    [appended |-> IF t.raised THEN acc.appended
                  ELSE Append(acc.appended, <<policy.name, n.name, t.text>>),
     cache    |-> n.cache,
     ext      |-> acc.ext \o t.ext,
     rets     |-> acc.rets \o t.rets,
     raised   |-> t.raised]

\* the tuple appended for a hit, and the state after translating the statement
Hit(acc, policy, comp_name, statement, fails) ==
    LET t == TranslateCompartmentIdsInStatement(acc.cache, statement, fails) IN
    [appended |-> IF t.raised THEN acc.appended
                  ELSE Append(acc.appended, <<policy.name, comp_name, t.text>>),
     cache    |-> t.cache,
     ext      |-> acc.ext \o t.ext,
     rets     |-> acc.rets \o t.rets,
     raised   |-> t.raised]

RECURSIVE GroupLoop_NoBreak(_, _, _, _, _, _, _)
\* the loop over the groups without its break
GroupLoop_NoBreak(policy, comp_name, statement, order, k, fails, acc) ==
    IF k > Len(order) \/ acc.raised THEN acc
    ELSE IF AnyPatternIn(LowerStr(statement), GroupPatterns(order[k]))
         THEN GroupLoop_NoBreak(policy, comp_name, statement, order, k + 1, fails,
                                Hit(acc, policy, comp_name, statement, fails))
         ELSE GroupLoop_NoBreak(policy, comp_name, statement, order, k + 1, fails, acc)

RECURSIVE GroupLoop_BreakAlways(_, _, _, _, _, _, _)
\* the loop over the groups with its break outside the if: only the first group
\* of the iteration is tried
GroupLoop_BreakAlways(policy, comp_name, statement, order, k, fails, acc) ==
    IF k > Len(order) \/ acc.raised THEN acc
    ELSE IF AnyPatternIn(LowerStr(statement), GroupPatterns(order[k]))
         THEN Hit(acc, policy, comp_name, statement, fails)
         ELSE acc

RECURSIVE GroupLoop(_, _, _, _, _, _, _)
\* for group_name in group_names: ... if any(...): translate, append, break
GroupLoop(policy, comp_name, statement, order, k, fails, acc) ==
    IF k > Len(order) \/ acc.raised THEN acc
    ELSE IF AnyPatternIn(LowerStr(statement), GroupPatterns(order[k]))
         THEN Hit(acc, policy, comp_name, statement, fails)
         ELSE GroupLoop(policy, comp_name, statement, order, k + 1, fails, acc)

\* results put in front of the list instead of at its end
AppendResults_Prepend(results, appended) == appended \o results

\* relevant_policies.append(...), for the tuples one statement yields
AppendResults(results, appended) == results \o appended

\* one iteration of `for statement in policy.statements`
FilterStatement(cache, policy, comp_name, statement, order, fails) ==
    GroupLoop(policy, comp_name, statement, order, 1, fails, LoopStart(cache))

(***************************************************************************)
(* Identity domains: get_identity_domains and detect_user_id_type.         *)
(***************************************************************************)
\* self.domains_cache = None
NoDomainsCache == [cached |-> FALSE, domains |-> <<>>]

\* self.domains_cache = active_domains
DomainsCached(active_domains) == [cached |-> TRUE, domains |-> active_domains]

\* the None in ("legacy", None)
NoneUrl == "None"

\* "ocid1.user."
W_user_prefix ==
    <<"o", "c", "i", "d", "1", ".", "u", "s", "e", "r", ".">>

\* a Legacy IAM user OCID
UserLegacy ==
    <<"o", "c", "i", "d", "1", ".", "u", "s", "e", "r", ".", "o", "c", "1", ".", ".",
      "u">>

\* the same OCID in upper case
UserUpper ==
    <<"O", "C", "I", "D", "1", ".", "U", "S", "E", "R", ".", "o", "c", "1", ".", ".",
      "u">>

\* the prefix without its last dot
UserShort ==
    <<"o", "c", "i", "d", "1", ".", "u", "s", "e", "r">>

\* an Identity Domain user id
UserDomain ==
    <<"a", "1", "b", "2">>

\* another Identity Domain user id
UserOther ==
    <<"c", "3", "d", "4">>

\* the ids detect_user_id_type is called with
UserIds == {UserLegacy, UserUpper, UserShort, UserDomain}

\* user_id.startswith(prefix)
StartsWith(s, prefix) ==
    /\ Len(prefix) <= Len(s)
    /\ \A k \in 1..Len(prefix) : s[k] = prefix[k]

\* the domains of the tenancy
DomainDefault ==
    [display_name |-> "Default", url |-> "https://idcs-1", lifecycle_state |-> "ACTIVE"]

DomainOld ==
    [display_name |-> "Old", url |-> "https://idcs-2", lifecycle_state |-> "INACTIVE"]

DomainDev ==
    [display_name |-> "Dev", url |-> "https://idcs-3", lifecycle_state |-> "ACTIVE"]

\* what identity_client.list_domains may answer (the domains of the tenancy do not
\* change, the place of the inactive one in the answer does)
DomainListings ==
    { <<DomainDefault, DomainOld, DomainDev>>,
      <<DomainOld, DomainDefault, DomainDev>> }

DomainUrls == {DomainDefault.url, DomainOld.url, DomainDev.url}

\* one record of a call of the identity or identity-domains service: the operation,
\* the domain url or group id it was about ("tenancy" for the tenancy's list_domains),
\* whether it returned, and what it returned
DomainCall(op, id, ok, data) == [op |-> op, id |-> id, ok |-> ok, data |-> data]

IsActive(d) == d.lifecycle_state = "ACTIVE"

\* [d for d in response.data if d.lifecycle_state == 'ACTIVE']
ActiveDomains(data) == SelectSeq(data, IsActive)

\* get_identity_domains() with cache state `cache`; `listing` and `ok` are the
\* service's answer should it be asked.  Result: the returned list, the cache
\* afterwards and the service calls made.
GetIdentityDomains(cache, listing, ok) ==
    IF cache.cached
    THEN [domains |-> cache.domains, cache |-> cache, calls |-> <<>>]
    ELSE IF ok
    THEN LET active_domains == ActiveDomains(listing) IN
         [domains |-> active_domains, cache |-> DomainsCached(active_domains),
          calls |-> <<DomainCall("list_domains", "tenancy", TRUE, listing)>>]
    ELSE [domains |-> <<>>, cache |-> cache,
          calls |-> <<DomainCall("list_domains", "tenancy", FALSE, <<>>)>>]

\* what creating the domain's client and its get_user(user_id) may do: return the
\* user, return a response without data, or raise
Outcomes == {"data", "nodata", "raise"}

\* the get_user call on the domain at `url`
GetUserCall(url, user_id, o) ==
    DomainCall("get_user", url, o # "raise", IF o = "data" THEN <<user_id>> ELSE <<>>)

RECURSIVE ProbeDomains_StopOnRaise(_, _, _, _, _)
\* the loop over the domains without its try/except: a lookup that raises ends it
ProbeDomains_StopOnRaise(domains, k, user_id, outcome, calls) ==
    IF k > Len(domains)
    THEN [type |-> "ValueError", url |-> NoneUrl, raised |-> TRUE, calls |-> calls]
    ELSE LET o == outcome[domains[k].url]
             c == Append(calls, GetUserCall(domains[k].url, user_id, o))
         IN  IF o = "data"
             THEN [type |-> "identity_domain", url |-> domains[k].url,
                   raised |-> FALSE, calls |-> c]
             ELSE IF o = "raise"
             THEN [type |-> "ValueError", url |-> NoneUrl, raised |-> TRUE, calls |-> c]
             ELSE ProbeDomains_StopOnRaise(domains, k + 1, user_id, outcome, c)

RECURSIVE ProbeDomains(_, _, _, _, _)
\* `for domain in domains`: return on the first domain whose get_user has data, go
\* on after an exception or a response without data, raise ValueError after the loop
ProbeDomains(domains, k, user_id, outcome, calls) ==
    IF k > Len(domains)
    THEN [type |-> "ValueError", url |-> NoneUrl, raised |-> TRUE, calls |-> calls]
    ELSE LET o == outcome[domains[k].url]
             c == Append(calls, GetUserCall(domains[k].url, user_id, o))
         IN  IF o = "data"
             THEN [type |-> "identity_domain", url |-> domains[k].url,
                   raised |-> FALSE, calls |-> c]
             ELSE ProbeDomains(domains, k + 1, user_id, outcome, c)

\* detect_user_id_type(user_id).  Result: the returned pair (type, url) or the
\* ValueError, the domain cache afterwards, the service calls made and the list of
\* domains the loop ran over.
DetectUserIdType(cache, user_id, listing, ok, outcome) ==
    IF StartsWith(user_id, W_user_prefix)
    THEN [type |-> "legacy", url |-> NoneUrl, raised |-> FALSE, cache |-> cache,
          calls |-> <<>>, domains |-> <<>>]
    ELSE LET d == GetIdentityDomains(cache, listing, ok)
             p == ProbeDomains(d.domains, 1, user_id, outcome, d.calls)
         IN  [type |-> p.type, url |-> p.url, raised |-> p.raised, cache |-> d.cache,
              calls |-> p.calls, domains |-> d.domains]

(***************************************************************************)
(* Identity domains: the groups of a user.                                 *)
(***************************************************************************)
\* the groups of the domain, as list_groups returns them
GroupAdmins == [id |-> "g1", display_name |-> "Admins"]

GroupOps == [id |-> "g2", display_name |-> "OPS"]

DomainGroups == <<GroupAdmins, GroupOps>>

\* get_group(group_id).data
GroupById(group_id) == IF group_id = GroupAdmins.id THEN GroupAdmins ELSE GroupOps

\* what user.data.groups may hold: the ids of the user's groups (empty also stands
\* for a user without the attribute)
UserGroupRefs == {<<>>, <<GroupAdmins.id>>, <<GroupOps.id, GroupAdmins.id>>}

\* what get_group(group_id, attributes="members") may do for one group: raise, or
\* return the group with these members (empty also stands for no attribute)
MemberOutcomes ==
    { [ok |-> FALSE, members |-> <<>>],
      [ok |-> TRUE, members |-> <<>>],
      [ok |-> TRUE, members |-> <<UserOther>>],
      [ok |-> TRUE, members |-> <<UserOther, UserDomain>>] }

\* the dict appended for a group
GroupDict(group) ==
    [name |-> group.display_name, id |-> group.id, type |-> "identity_domain"]

RECURSIVE DirectGroups(_, _, _, _)
\* `for group_ref in user.data.groups`: the group's details are fetched and
\* appended; a get_group that raises (k in fails) is skipped with a warning
DirectGroups(refs, k, fails, acc) ==
    IF k > Len(refs) THEN acc
    ELSE IF k \in fails
    THEN DirectGroups(refs, k + 1, fails,
             [groups |-> acc.groups,
              calls |-> Append(acc.calls, DomainCall("get_group", refs[k], FALSE, <<>>))])
    ELSE DirectGroups(refs, k + 1, fails,
             [groups |-> Append(acc.groups, GroupDict(GroupById(refs[k]))),
              calls |-> Append(acc.calls, DomainCall("get_group", refs[k], TRUE, <<>>))])

RECURSIVE ScanGroups(_, _, _, _, _)
\* `for group in all_groups_response.data.resources`: the group is kept when the
\* user is among its members; a get_group that raises is skipped with a warning
ScanGroups(user_id, all_groups, k, members, acc) ==
    IF k > Len(all_groups) THEN acc
    ELSE LET group == all_groups[k]
             m == members[group.id]
             c == Append(acc.calls, DomainCall("get_group_members", group.id, m.ok, m.members))
         IN  IF m.ok /\ user_id \in Range(m.members)
             THEN ScanGroups(user_id, all_groups, k + 1, members,
                      [groups |-> Append(acc.groups, GroupDict(group)), calls |-> c])
             ELSE ScanGroups(user_id, all_groups, k + 1, members,
                      [groups |-> acc.groups, calls |-> c])

\* get_identity_domain_groups_alternative(user_id, domain_url): list_ok says whether
\* creating the client and list_groups return
GetIdentityDomainGroupsAlternative(user_id, domain_url, list_ok, members) ==
    IF list_ok
    THEN ScanGroups(user_id, DomainGroups, 1, members,
             [groups |-> <<>>,
              calls |-> <<DomainCall("list_groups", domain_url, TRUE, DomainGroups)>>])
    ELSE [groups |-> <<>>,
          calls |-> <<DomainCall("list_groups", domain_url, FALSE, <<>>)>>]

\* get_user_groups_identity_domain that also falls back when the direct lookup
\* found no group
GetUserGroupsIdentityDomain_FallbackOnEmpty(user_id, domain_url, user_ok, refs, fails, list_ok, members) ==
    LET d == DirectGroups(refs, 1, fails,
                 [groups |-> <<>>,
                  calls |-> <<DomainCall("get_user", domain_url, TRUE, refs)>>])
        a == GetIdentityDomainGroupsAlternative(user_id, domain_url, list_ok, members)
    IN  IF ~user_ok
        THEN [groups |-> a.groups,
              calls |-> <<DomainCall("get_user", domain_url, FALSE, <<>>)>> \o a.calls]
        ELSE IF d.groups = <<>>
        THEN [groups |-> a.groups, calls |-> d.calls \o a.calls]
        ELSE d

\* get_user_groups_identity_domain(user_id, domain_url): user_ok says whether
\* creating the client and get_user(user_id, attributes="groups") return.  Result:
\* the returned list and the service calls made.
GetUserGroupsIdentityDomain(user_id, domain_url, user_ok, refs, fails, list_ok, members) ==
    IF user_ok
    THEN DirectGroups(refs, 1, fails,
             [groups |-> <<>>,
              calls |-> <<DomainCall("get_user", domain_url, TRUE, refs)>>])
    ELSE LET a == GetIdentityDomainGroupsAlternative(user_id, domain_url, list_ok, members)
         IN  [groups |-> a.groups,
              calls |-> <<DomainCall("get_user", domain_url, FALSE, <<>>)>> \o a.calls]

(***************************************************************************)
(* users_in_domains.py: get_identity_domain_users.                         *)
(***************************************************************************)
\* most pages one get_identity_domain_users call asks for: the service answers the
\* last of them with an empty or short page
MaxPages == 3

\* count = 100, the page size asked for
count == 100

\* the sizes of the pages the service answers with
PageSizes == {0, 1, count - 1, count}

ShortSizes == {n \in PageSizes : n < count}

\* the filter_username arguments: none, and a name
FilterNames == {"", "bob"}

\* the i-th user of the domain, as the service returns it (created: the formatted
\* creation date of its meta, when it has one)
UserResource(i) ==
    [id |-> i,
     user_name |-> "user",
     display_name |-> "User",
     emails |-> IF i % 3 = 0 THEN <<>> ELSE <<"user@example.com">>,
     active |-> i % 2 = 1,
     created |-> IF i % 5 = 0 THEN <<>> ELSE <<"2024-01-01 00:00:00">>]

\* domain_client.list_users(start_index, count, ...): it raises, or returns the n
\* users from start_index on
ListUsers(start, n, ok) ==
    [raised |-> ~ok,
     resources |-> IF ok THEN [k \in 1..n |-> UserResource(start + k - 1)] ELSE <<>>]

\* the dict appended for a user
UserDict(user) ==
    [username |-> user.user_name,
     display_name |-> user.display_name,
     email |-> IF user.emails # <<>> THEN user.emails[1] ELSE "N/A",
     user_id |-> user.id,
     status |-> IF user.active THEN "Active" ELSE "Inactive",
     created |-> IF user.created # <<>> THEN user.created[1] ELSE "N/A"]

\* `for user in response.data.resources: users.append({...})`; with a
\* filter_username the SCIM filter is set, so the client-side filter skips nobody
PageUsers(resources) == [k \in DOMAIN resources |-> UserDict(resources[k])]

\* the next page starting on the last user of this one
NextStartIndex_Overlap(start) == start + count - 1

\* start_index += count
NextStartIndex(start) == start + count

\* the except branch handing back what was collected
OnException_KeepUsers(collected) == collected

\* except Exception: return []
OnException(collected) == <<>>

\* one record of a list_users call: its arguments and the size of the page returned
ListUsersCall(start, filter_username, n, ok) ==
    [start_index |-> start, count |-> count, filter |-> filter_username,
     ok |-> ok, n |-> IF ok THEN n ELSE 0]

(***************************************************************************)
(* The state machine.                                                      *)
(***************************************************************************)
\* what the last step did, as its caller and the directory service saw it
Obs(op, arg, ret, ext, rets) ==
    [op |-> op, arg |-> arg, ret |-> ret, ext |-> ext, rets |-> rets]

NoObs == Obs("none", <<>>, <<>>, <<>>, <<>>)

Init ==
    /\ compartment_cache = EmptyCache
    /\ pc = "idle"
    /\ policies = <<>>
    /\ group_names = {}
    /\ pidx = 0
    /\ sidx = 0
    /\ policy_compartment_name = <<>>
    /\ relevant_policies = <<>>
    /\ emitted = <<>>
    /\ scan = <<>>
    /\ all_relevant_policies = <<>>
    /\ domains_cache = NoDomainsCache
    /\ users = <<>>
    /\ start_index = 0
    /\ requests = <<>>
    /\ last = NoObs
    /\ prev = NoObs

\* no call of filter_policies_for_groups or analyze_user_policies is running
NoLocals ==
    /\ policies' = <<>>
    /\ group_names' = {}
    /\ pidx' = 0
    /\ sidx' = 0
    /\ policy_compartment_name' = <<>>
    /\ relevant_policies' = <<>>
    /\ emitted' = <<>>
    /\ scan' = <<>>
    /\ all_relevant_policies' = <<>>

\* a get_compartment_name call has just returned to its caller
JustResolved == pc = "done" /\ last.op = "get_compartment_name"

\* a caller calls get_compartment_name(compartment_id), possibly right after an
\* earlier call of it returned (prev then keeps what that call did)
GetCompartmentNameCall ==
    /\ pc = "idle" \/ JustResolved
    /\ prev' = IF JustResolved THEN last ELSE NoObs
    /\ \E compartment_id \in ResolveIds, ok \in BOOLEAN :
          LET r == GetCompartmentName(compartment_cache, compartment_id, ok) IN
          /\ compartment_cache' = r.cache
          /\ last' = Obs("get_compartment_name", compartment_id, r.name, r.ext, <<>>)
          /\ pc' = IF r.raised THEN "raised" ELSE "done"
    /\ NoLocals
    /\ UNCHANGED domain_vars

\* a caller calls translate_compartment_ids_in_statement(statement)
TranslateCall ==
    /\ pc = "idle"
    /\ \E statement \in TranslateStatements :
       \E fails \in FailSets(statement) :
          LET t == TranslateCompartmentIdsInStatement(compartment_cache, statement, fails) IN
          /\ compartment_cache' = t.cache
          /\ last' = Obs("translate", statement, t.text, t.ext, t.rets)
          /\ pc' = IF t.raised THEN "raised" ELSE "done"
    /\ NoLocals
    /\ prev' = NoObs
    /\ UNCHANGED domain_vars

\* a caller calls translate_compartment_ids_in_statement(statement) with a statement
\* of NameStatements
TranslateNamesCall ==
    /\ pc = "idle"
    /\ \E statement \in NameStatements :
       \E fails \in FailSets(statement) :
          LET t == TranslateCompartmentIdsInStatement(compartment_cache, statement, fails) IN
          /\ compartment_cache' = t.cache
          /\ last' = Obs("translate", statement, t.text, t.ext, t.rets)
          /\ pc' = IF t.raised THEN "raised" ELSE "done"
    /\ NoLocals
    /\ prev' = NoObs
    /\ UNCHANGED domain_vars

\* the caller passes the text translate_compartment_ids_in_statement just returned
\* to it once more (prev keeps what the first pass did)
TranslateAgainCall ==
    /\ pc = "done"
    /\ last.op = "translate"
    /\ \E fails \in FailSets(last.ret) :
          LET t == TranslateCompartmentIdsInStatement(compartment_cache, last.ret, fails) IN
          /\ compartment_cache' = t.cache
          /\ last' = Obs("translate_again", last.ret, t.text, t.ext, t.rets)
          /\ pc' = IF t.raised THEN "raised" ELSE "done"
    /\ prev' = last
    /\ NoLocals
    /\ UNCHANGED domain_vars

\* filter_policies_for_groups(ps, g) begins: relevant_policies = []
FilterBegin(ps, g) ==
    /\ policies' = ps
    /\ group_names' = g
    /\ pidx' = 1
    /\ sidx' = 0
    /\ policy_compartment_name' = <<>>
    /\ relevant_policies' = <<>>
    /\ emitted' = <<>>
    /\ pc' = "policy"

\* a caller calls filter_policies_for_groups(policies, group_names)
FilterCall ==
    /\ pc = "idle"
    /\ \E ps \in PolicyLists, g \in GroupSets : FilterBegin(ps, g)
    /\ last' = Obs("filter_call", <<>>, <<>>, <<>>, <<>>)
    /\ prev' = NoObs
    /\ UNCHANGED <<compartment_cache, scan, all_relevant_policies>>
    /\ UNCHANGED domain_vars

\* `for policy in policies`: the next policy's compartment name is resolved
FilterPolicy ==
    /\ pc = "policy"
    /\ pidx <= Len(policies)
    /\ \E ok \in BOOLEAN :
          LET policy == policies[pidx]
              r == GetCompartmentName(compartment_cache, policy.compartment_id, ok)
          IN  /\ compartment_cache' = r.cache
              /\ policy_compartment_name' = r.name
              /\ last' = Obs("filter_policy", policy.compartment_id, r.name, r.ext, <<>>)
              /\ IF r.raised
                 THEN pc' = "raised" /\ UNCHANGED <<pidx, sidx>>
                 ELSE IF policy.statements = <<>>
                 THEN pc' = "policy" /\ pidx' = pidx + 1 /\ sidx' = 0
                 ELSE pc' = "statement" /\ sidx' = 1 /\ UNCHANGED pidx
    /\ UNCHANGED <<policies, group_names, relevant_policies, emitted, scan,
                   all_relevant_policies, prev>>
    /\ UNCHANGED domain_vars

\* `for statement in policy.statements`: one statement is matched and, on a hit,
\* translated and appended
FilterStatementStep ==
    /\ pc = "statement"
    /\ \E order \in Orders(group_names),
          fails \in FailSets(policies[pidx].statements[sidx]) :
          LET policy == policies[pidx]
              statement == policy.statements[sidx]
              r == FilterStatement(compartment_cache, policy, policy_compartment_name,
                                   statement, order, fails)
          IN  /\ compartment_cache' = r.cache
              /\ relevant_policies' = AppendResults(relevant_policies, r.appended)
              /\ emitted' = AppendResults(emitted,
                                [i \in 1..Len(r.appended) |-> <<pidx, sidx>>])
              /\ last' = Obs("filter_statement", statement, r.appended, r.ext, r.rets)
              /\ IF r.raised
                 THEN pc' = "raised" /\ UNCHANGED <<pidx, sidx>>
                 ELSE IF sidx < Len(policy.statements)
                 THEN pc' = "statement" /\ sidx' = sidx + 1 /\ UNCHANGED pidx
                 ELSE pc' = "policy" /\ pidx' = pidx + 1 /\ sidx' = 0
    /\ UNCHANGED <<policies, group_names, policy_compartment_name, scan,
                   all_relevant_policies, prev>>
    /\ UNCHANGED domain_vars

\* `return relevant_policies`: to the direct caller, or into the scan loop of
\* analyze_user_policies, which extends all_relevant_policies with it
FilterReturn ==
    /\ pc = "policy"
    /\ pidx > Len(policies)
    /\ last' = Obs("filter_return", <<>>, relevant_policies, <<>>, <<>>)
    /\ IF scan = <<>>
       THEN pc' = "done" /\ UNCHANGED <<scan, all_relevant_policies>>
       ELSE /\ pc' = "scan"
            /\ scan' = Tail(scan)
            /\ all_relevant_policies' = all_relevant_policies \o relevant_policies
    /\ UNCHANGED <<compartment_cache, policies, group_names, pidx, sidx,
                   policy_compartment_name, relevant_policies, emitted, prev>>
    /\ UNCHANGED domain_vars

\* get_all_compartments(): the active compartments, [] when listing them fails
CompartmentLists == {<<>>, <<CompA>>, <<CompB, CompA>>}

\* get_policies_in_compartment(compartment_id): its policies, [] when listing fails
PoliciesIn(compartment_id) ==
    {<<>>} \cup {<<p>> : p \in {q \in PolicySet : q.compartment_id = compartment_id}}

\* analyze_user_policies(user_id) up to its scan loop: detect_user_id_type is called
\* (for an id that is no Legacy OCID it lists the domains and may fill the domain
\* cache; the method returns on its ValueError), the user's groups are found (g; the
\* method returns early when there are none) and the compartments are listed
AnalyzeCall ==
    /\ pc = "idle"
    /\ \E user_id \in UserIds, listing \in DomainListings, ok \in BOOLEAN,
          outcome \in [DomainUrls -> Outcomes], g \in GroupSets,
          comps \in CompartmentLists :
          LET d == DetectUserIdType(domains_cache, user_id, listing, ok, outcome) IN
          /\ domains_cache' = d.cache
          /\ IF d.raised
             THEN group_names' = {} /\ pc' = "done" /\ scan' = <<>>
             ELSE IF g = {}
             THEN group_names' = g /\ pc' = "done" /\ scan' = <<>>
             ELSE group_names' = g /\ pc' = "scan" /\ scan' = <<tenancy_id>> \o comps
    /\ all_relevant_policies' = <<>>
    /\ policies' = <<>>
    /\ pidx' = 0
    /\ sidx' = 0
    /\ policy_compartment_name' = <<>>
    /\ relevant_policies' = <<>>
    /\ emitted' = <<>>
    /\ last' = Obs("analyze_call", <<>>, <<>>, <<>>, <<>>)
    /\ prev' = NoObs
    /\ UNCHANGED <<compartment_cache, users, start_index, requests>>

\* `for compartment_id in all_compartment_ids`: the compartment's name is resolved,
\* its policies are listed and filter_policies_for_groups is called on them
AnalyzeCompartment ==
    /\ pc = "scan"
    /\ scan # <<>>
    /\ \E ok \in BOOLEAN, ps \in PoliciesIn(Head(scan)) :
          LET r == GetCompartmentName(compartment_cache, Head(scan), ok) IN
          /\ compartment_cache' = r.cache
          /\ last' = Obs("analyze_compartment", Head(scan), r.name, r.ext, <<>>)
          /\ IF r.raised
             THEN /\ pc' = "raised"
                  /\ UNCHANGED <<policies, group_names, pidx, sidx, policy_compartment_name,
                                 relevant_policies, emitted>>
             ELSE FilterBegin(ps, group_names)
    /\ UNCHANGED <<scan, all_relevant_policies, prev>>
    /\ UNCHANGED domain_vars

\* the scan loop is over: the collected statements are displayed
AnalyzeReturn ==
    /\ pc = "scan"
    /\ scan = <<>>
    /\ pc' = "done"
    /\ last' = Obs("analyze_return", <<>>, all_relevant_policies, <<>>, <<>>)
    /\ UNCHANGED <<compartment_cache, policies, group_names, pidx, sidx,
                   policy_compartment_name, relevant_policies, emitted, scan,
                   all_relevant_policies, prev>>
    /\ UNCHANGED domain_vars

\* the caller has the returned value; the call's locals are gone
Return ==
    /\ pc = "done"
    /\ pc' = "idle"
    /\ prev' = NoObs
    /\ last' = NoObs
    /\ NoLocals
    /\ UNCHANGED compartment_cache
    /\ UNCHANGED domain_vars

Next ==
    \/ GetCompartmentNameCall
    \/ TranslateCall
    \/ TranslateAgainCall
    \/ FilterCall
    \/ FilterPolicy
    \/ FilterStatementStep
    \/ FilterReturn
    \/ AnalyzeCall
    \/ AnalyzeCompartment
    \/ AnalyzeReturn
    \/ Return

Spec == Init /\ [][Next]_vars

(***************************************************************************)
(* translate_compartment_ids_in_statement applied to its own result, over  *)
(* the statements of NameStatements and every name of the directory.       *)
(***************************************************************************)
TranslateNext ==
    \/ TranslateNamesCall
    \/ TranslateAgainCall
    \/ Return

TranslateSpec == Init /\ [][TranslateNext]_vars

(***************************************************************************)
(* The identity-domain operations called on their own.  They neither read *)
(* nor write the compartment cache, so they run as a specification of      *)
(* their own; analyze_user_policies, which uses both caches, is an action  *)
(* of Spec.                                                                *)
(***************************************************************************)
\* a caller calls detect_user_id_type(user_id)
DetectCall ==
    /\ pc = "idle"
    /\ \E user_id \in UserIds, listing \in DomainListings, ok \in BOOLEAN,
          outcome \in [DomainUrls -> Outcomes] :
          LET r == DetectUserIdType(domains_cache, user_id, listing, ok, outcome) IN
          /\ domains_cache' = r.cache
          /\ last' = Obs("detect_user_id_type", user_id, <<r.type, r.url>>, r.calls,
                         r.domains)
          /\ pc' = IF r.raised THEN "raised" ELSE "done"
    /\ prev' = NoObs
    /\ UNCHANGED <<policy_vars, users, start_index, requests>>

\* a caller calls get_user_groups_identity_domain(user_id, domain_url)
GroupsCall ==
    /\ pc = "idle"
    /\ \E user_ok \in BOOLEAN, refs \in UserGroupRefs, list_ok \in BOOLEAN,
          members \in [{GroupAdmins.id, GroupOps.id} -> MemberOutcomes] :
       \E fails \in SUBSET (1..Len(refs)) :
          LET r == GetUserGroupsIdentityDomain(UserDomain, DomainDefault.url, user_ok,
                                               refs, fails, list_ok, members)
          IN  last' = Obs("get_user_groups_identity_domain", UserDomain, r.groups,
                          r.calls, <<>>)
    /\ pc' = "done"
    /\ prev' = NoObs
    /\ UNCHANGED <<policy_vars, domain_vars>>

\* a caller calls get_identity_domain_users(domain_client, filter_username):
\* users = [], start_index = 1
UsersCall ==
    /\ pc = "idle"
    /\ \E filter_username \in FilterNames :
          last' = Obs("users_call", filter_username, <<>>, <<>>, <<>>)
    /\ users' = <<>>
    /\ start_index' = 1
    /\ requests' = <<>>
    /\ pc' = "users"
    /\ prev' = NoObs
    /\ UNCHANGED <<policy_vars, domains_cache>>

\* one iteration of `while True`: a page is asked for; the call returns [] when
\* list_users raises, and users when the page is empty or, after appending it, short
UsersPage ==
    /\ pc = "users"
    /\ \E ok \in BOOLEAN,
          n \in (IF Len(requests) + 1 < MaxPages THEN PageSizes ELSE ShortSizes) :
          LET response == ListUsers(start_index, n, ok)
              called == Append(requests, ListUsersCall(start_index, last.arg, n, ok))
              collected == users \o PageUsers(response.resources)
          IN  /\ requests' = called
              /\ IF response.raised
                 THEN /\ pc' = "done"
                      /\ last' = Obs("get_identity_domain_users", last.arg,
                                     OnException(users), called, <<>>)
                      /\ UNCHANGED <<users, start_index>>
                 ELSE IF response.resources = <<>>
                 THEN /\ pc' = "done"
                      /\ last' = Obs("get_identity_domain_users", last.arg, users,
                                     called, <<>>)
                      /\ UNCHANGED <<users, start_index>>
                 ELSE IF Len(response.resources) < count
                 THEN /\ pc' = "done"
                      /\ users' = collected
                      /\ last' = Obs("get_identity_domain_users", last.arg, collected,
                                     called, <<>>)
                      /\ UNCHANGED start_index
                 ELSE /\ pc' = "users"
                      /\ users' = collected
                      /\ start_index' = NextStartIndex(start_index)
                      /\ last' = Obs("users_page", last.arg, <<>>, called, <<>>)
    /\ UNCHANGED <<policy_vars, domains_cache, prev>>

\* the caller has the returned value or the exception; the call's locals are gone
DomainReturn ==
    /\ pc \in {"done", "raised"}
    /\ pc' = "idle"
    /\ users' = <<>>
    /\ start_index' = 0
    /\ requests' = <<>>
    /\ last' = NoObs
    /\ prev' = NoObs
    /\ UNCHANGED <<policy_vars, domains_cache>>

DomainNext ==
    \/ DetectCall
    \/ GroupsCall
    \/ UsersCall
    \/ UsersPage
    \/ DomainReturn

DomainSpec == Init /\ [][DomainNext]_vars

\* a running get_identity_domain_users goes on to its next page
DomainFairSpec == DomainSpec /\ WF_vars(UsersPage)

(***************************************************************************)
(* The claims.                                                             *)
(***************************************************************************)
\* the three ways a statement may name group g
MentionsGroup(s, G) ==
    \E g \in G :
        \/ Contains(LowerStr(s), W_group \o SP \o LowerStr(g))
        \/ Contains(LowerStr(s), W_group \o SP \o SQ \o LowerStr(g) \o SQ)
        \/ Contains(LowerStr(s), W_group \o SP \o DQ \o LowerStr(g) \o DQ)

\* the <<policy, statement>> index pairs of a policy list
Positions(ps) ==
    UNION {{<<p, k>> : k \in 1..Len(ps[p].statements)} : p \in 1..Len(ps)}

StatementAt(ps, pos) == ps[pos[1]].statements[pos[2]]

FilterReturned == last.op = "filter_return"

\* C1: when filter_policies_for_groups returns, a result was emitted for exactly the
\* statements whose lower-cased text contains "group g", "group 'g'" or
\* 'group "g"' for the lower-cased name g of at least one group of the set.
C1_EmittedIffMentionsGroup ==
    FilterReturned =>
        /\ Len(relevant_policies) = Len(emitted)
        /\ Range(emitted) =
             {pos \in Positions(policies) : MentionsGroup(StatementAt(policies, pos), group_names)}

C1_Witness ==
    /\ FilterReturned
    /\ group_names = GroupNames
    /\ \E pos \in Positions(policies) : pos \in Range(emitted)
    /\ \E pos \in Positions(policies) : pos \notin Range(emitted)
    /\ \E pos \in Range(emitted) : StatementAt(policies, pos) = StOpsQuoted
    /\ \E pos \in Range(emitted) : StatementAt(policies, pos) = StAdminsDQ

RECURSIVE TotalStatements(_, _)
TotalStatements(ps, k) ==
    IF k > Len(ps) THEN 0 ELSE Len(ps[k].statements) + TotalStatements(ps, k + 1)

\* C2: no <<policy, statement>> occurrence is emitted twice, also when the statement
\* names several groups of the set: one statement yields at most one tuple, and there
\* are never more result tuples than input statements.
C2_EmittedAtMostOnce ==
    /\ \A i, j \in DOMAIN emitted : i # j => emitted[i] # emitted[j]
    /\ Len(relevant_policies) <= TotalStatements(policies, 1)
    /\ last.op = "filter_statement" => Len(last.ret) <= 1

C2_Witness ==
    /\ FilterReturned
    /\ group_names = GroupNames
    /\ \E i \in DOMAIN emitted :
          /\ StatementAt(policies, emitted[i]) = StBothX
          /\ MentionsGroup(StBothX, {GAdmins})
          /\ MentionsGroup(StBothX, {GOps})

\* position a comes before position b in the flattened policy/statement input
Before(a, b) == a[1] < b[1] \/ (a[1] = b[1] /\ a[2] < b[2])

\* C3: the results are in input order: a result of an earlier policy comes before one
\* of a later policy, and within a policy the results follow the statements' order;
\* each tuple carries the name of the policy it came from (and the statement's own
\* text when the statement holds no compartment reference).
C3_ResultsInInputOrder ==
    /\ Len(relevant_policies) = Len(emitted)
    /\ \A i, j \in DOMAIN emitted : i < j => Before(emitted[i], emitted[j])
    /\ \A i \in DOMAIN emitted :
          /\ emitted[i] \in Positions(policies)
          /\ relevant_policies[i][1] = policies[emitted[i][1]].name
          /\ NumMatches(StatementAt(policies, emitted[i]), 1) = 0
                => relevant_policies[i][3] = StatementAt(policies, emitted[i])

C3_Witness ==
    /\ FilterReturned
    /\ Len(emitted) >= 3
    /\ \E i, j \in DOMAIN emitted : emitted[i][1] < emitted[j][1]
    /\ \E i, j \in DOMAIN emitted : emitted[i][1] = emitted[j][1] /\ emitted[i][2] < emitted[j][2]

\* the steps that call get_compartment_name(last.arg) and hold its result in last.ret
ResolveOps == {"get_compartment_name", "filter_policy", "analyze_compartment"}

\* C4: get_compartment_name(tenancy root id) returns "root" and calls nothing, in
\* every cache state; no step ever asks the directory service for the tenancy id.
C4_RootNeverLookedUp ==
    /\ last.op \in ResolveOps /\ last.arg = tenancy_id
          => last.ret = W_root /\ last.ext = <<>>
    /\ \A i \in DOMAIN last.ext : last.ext[i].id # tenancy_id

C4_Witness ==
    /\ last.op = "get_compartment_name"
    /\ last.arg = tenancy_id
    /\ prev.op = "get_compartment_name"
    /\ prev.arg = tenancy_id
    /\ CompA \in DOMAIN compartment_cache

\* two get_compartment_name calls in a row with the same non-root id
SameIdTwice ==
    /\ last.op = "get_compartment_name"
    /\ prev.op = "get_compartment_name"
    /\ last.arg = prev.arg
    /\ last.arg # tenancy_id

\* the external call of a step failed
Failed(ext) == \E i \in DOMAIN ext : ~ext[i].ok

\* C5 as stated: two calls with the same non-root id make at most one external call.
C5_Original_AtMostOneCall ==
    SameIdTwice => Len(prev.ext) + Len(last.ext) <= 1

\* C5 amended: two calls with the same non-root id make at most one successful
\* external call; when the first call's lookup did not fail, the second call is a
\* cache hit: it calls nothing and returns the same name.
C5_SecondCallHitsCache ==
    SameIdTwice =>
        /\ Cardinality({i \in DOMAIN (prev.ext \o last.ext) : (prev.ext \o last.ext)[i].ok}) <= 1
        /\ ~Failed(prev.ext) => last.ext = <<>> /\ last.ret = prev.ret

C5_Witness ==
    /\ SameIdTwice
    /\ Len(prev.ext) = 1
    /\ prev.ext[1].ok
    /\ last.ext = <<>>

\* C6: a failed get_compartment lookup raises nothing: no step ends in an exception,
\* get_compartment_name returns the id it was given, and a filter run goes on to its
\* next statement or policy (or to its return) after the failure.
C6_FailureIsNotFatal ==
    /\ pc # "raised"
    /\ last.op \in ResolveOps /\ Failed(last.ext) => last.ret = last.arg
    /\ last.op = "filter_policy" /\ Failed(last.ext)
          => /\ policy_compartment_name = last.arg
             /\ \/ pc = "statement" /\ sidx = 1
                \/ pc = "policy" /\ policies[pidx - 1].statements = <<>>
    /\ last.op = "filter_statement" /\ Failed(last.ext)
          => pc \in {"statement", "policy"}
    /\ FilterReturned => pidx = Len(policies) + 1

C6_Witness ==
    /\ FilterReturned
    /\ Len(policies) = 2
    /\ policies[1].compartment_id = CompX
    /\ \E i \in DOMAIN emitted : emitted[i][1] = 1 /\ relevant_policies[i][2] = CompX
    /\ \E i \in DOMAIN emitted : emitted[i][1] = 2

\* C7: a statement that names a group of the set and holds a compartment id whose
\* lookup fails is still emitted, with `compartment <that id>` in the emitted text.
C7_UnresolvedIdIsKept ==
    /\ last.op = "filter_statement"
    /\ MentionsGroup(last.arg, group_names)
    /\ Failed(last.ext)
    => /\ Len(last.ret) = 1
       /\ \A i \in DOMAIN last.ext :
             ~last.ext[i].ok =>
                 /\ Contains(last.arg, last.ext[i].id)
                 /\ Contains(last.ret[1][3], W_compartment \o SP \o last.ext[i].id)

C7_Witness ==
    /\ last.op = "filter_statement"
    /\ last.arg = StOpsQuoted
    /\ Len(last.ext) = 2
    /\ ~last.ext[1].ok
    /\ last.ext[2].ok
    /\ Len(last.ret) = 1

\* C8: every cache entry maps the tenancy root id to "root" or a compartment id to the
\* name the directory service gives for that id; the raw id a failed lookup falls
\* back to is never stored.
C8_CacheHoldsOnlyResolvedNames ==
    \A id \in DOMAIN compartment_cache :
        /\ \/ id = tenancy_id /\ compartment_cache[id] = W_root
           \/ id \in DOMAIN Directory /\ compartment_cache[id] = Directory[id]
        /\ compartment_cache[id] # id

C8_Witness ==
    /\ Failed(last.ext)
    /\ \E i \in DOMAIN last.ext : ~last.ext[i].ok /\ last.ext[i].id \notin DOMAIN compartment_cache
    /\ CompA \in DOMAIN compartment_cache
    /\ tenancy_id \in DOMAIN compartment_cache

\* C9: the cache is append-only: no step removes an id from it or changes the name
\* stored for an id.
C9_CacheAppendOnly ==
    [][\A id \in DOMAIN compartment_cache :
          /\ id \in DOMAIN compartment_cache'
          /\ compartment_cache'[id] = compartment_cache[id]]_vars

C9_Witness ==
    /\ last.op \in {"filter_statement", "analyze_compartment"}
    /\ Len(last.ext) >= 1
    /\ last.ext[Len(last.ext)].ok
    /\ DOMAIN compartment_cache = {tenancy_id, CompA, CompB}

\* the letters of `compartment`, in any case, at position i
WordAt(s, i) ==
    /\ i + Len(W_compartment) - 1 <= Len(s)
    /\ LowerStr(SubSeq(s, i, i + Len(W_compartment) - 1)) = W_compartment

\* only whitespace, and some, between the word at i and position b
SpacesUpTo(s, i, b) ==
    /\ b > i + Len(W_compartment)
    /\ \A j \in (i + Len(W_compartment))..(b - 1) : IsSpace(s[j])

\* an id token at b..d-1: the prefix `ocid1.compartment.` in any case, then one or
\* more characters of the class, as many as there are
IdTokenAt(s, b, d) ==
    /\ b + Len(W_ocid_prefix) - 1 <= Len(s)
    /\ LowerStr(SubSeq(s, b, b + Len(W_ocid_prefix) - 1)) = W_ocid_prefix
    /\ d > b + Len(W_ocid_prefix)
    /\ d <= Len(s) + 1
    /\ \A j \in (b + Len(W_ocid_prefix))..(d - 1) : IsIdChar(s[j])
    /\ d <= Len(s) => ~IsIdChar(s[d])

\* the occurrences of the pattern that start at position i, as pairs <<b, d>>: the
\* word at i, whitespace up to b-1, the id token at b..d-1
OccurrencesAt(s, i) ==
    IF ~WordAt(s, i) THEN {}
    ELSE UNION {{<<b, d>> : d \in {e \in (b + 1)..(Len(s) + 1) : IdTokenAt(s, b, e)}} :
                   b \in {c \in (i + 1)..Len(s) : SpacesUpTo(s, i, c)}}

RECURSIVE Occurrences(_, _)
\* the leftmost occurrences from position pos on, none overlapping an earlier one
Occurrences(s, pos) ==
    IF pos > Len(s) THEN <<>>
    ELSE LET here == OccurrencesAt(s, pos) IN
         IF here # {}
         THEN LET bd == CHOOSE x \in here : TRUE
              IN  <<[start |-> pos, idStart |-> bd[1], end |-> bd[2]]>>
                      \o Occurrences(s, bd[2])
         ELSE Occurrences(s, pos + 1)

RECURSIVE Rebuilt(_, _, _, _, _)
\* the text from occurrence k on: each occurrence replaced by the word `compartment`
\* (as written in s when keepWord, else in lower case), one space and names[k]; the
\* text between the occurrences as it is
Rebuilt(s, occ, names, k, keepWord) ==
    LET from == IF k = 1 THEN 1 ELSE occ[k - 1].end IN
    IF k > Len(occ) THEN SubSeq(s, from, Len(s))
    ELSE SubSeq(s, from, occ[k].start - 1)
         \o (IF keepWord
             THEN SubSeq(s, occ[k].start, occ[k].start + Len(W_compartment) - 1)
             ELSE W_compartment)
         \o SP \o names[k]
         \o Rebuilt(s, occ, names, k + 1, keepWord)

\* the names the resolver may return for id in the cache state after the pass
ResolvedNames(id) ==
    {id} \cup (IF id \in DOMAIN compartment_cache THEN {compartment_cache[id]} ELSE {})

\* the resolver was asked once per occurrence, in order, for the occurrence's id token
ResolvedPerOccurrence(s, occ, names) ==
    /\ Len(names) = Len(occ)
    /\ \A k \in DOMAIN occ : names[k] \in ResolvedNames(SubSeq(s, occ[k].idStart, occ[k].end - 1))

\* C10 as stated: every occurrence is replaced by the word `compartment` as written in
\* the input, one space and the resolver's result; the rest of the text is unchanged.
C10_Original_WordPreserved ==
    last.op = "translate" =>
        LET occ == Occurrences(last.arg, 1) IN
        /\ ResolvedPerOccurrence(last.arg, occ, last.rets)
        /\ last.ret = Rebuilt(last.arg, occ, last.rets, 1, TRUE)

\* C10 amended: every leftmost non-overlapping occurrence is replaced by the
\* lower-case word `compartment`, one space and the resolver's result for the id
\* token; the rest of the text is unchanged; all occurrences are replaced in one pass.
C10_ReplacedByLowerCaseWord ==
    last.op = "translate" =>
        LET occ == Occurrences(last.arg, 1) IN
        /\ ResolvedPerOccurrence(last.arg, occ, last.rets)
        /\ last.ret = Rebuilt(last.arg, occ, last.rets, 1, FALSE)

C10_Witness ==
    /\ last.op = "translate"
    /\ last.arg = StHead \o RefB \o RefA
    /\ last.rets = <<Directory[CompB], Directory[CompA]>>
    /\ Len(Occurrences(last.arg, 1)) = 2

TranslateOps == {"translate", "translate_again"}

\* C11: a statement with no occurrence of the compartment-id pattern is returned as
\* it is, the resolver and the directory service are not called, and the step leaves
\* the cache as it was.
C11_NoOccurrenceNoEffect ==
    /\ [](last.op \in TranslateOps /\ Occurrences(last.arg, 1) = <<>>
             => last.ret = last.arg /\ last.ext = <<>> /\ last.rets = <<>>)
    /\ [][last'.op \in TranslateOps /\ last' # last /\ Occurrences(last'.arg, 1) = <<>>
             => compartment_cache' = compartment_cache]_vars

C11_Witness ==
    /\ last.op = "translate"
    /\ last.arg = StHead \o RefName \o RefName
    /\ Occurrences(last.arg, 1) = <<>>
    /\ compartment_cache # EmptyCache

\* every id a lookup failed for in the first pass is still not in the cache
StillUnresolved ==
    \A i \in DOMAIN prev.ext : ~prev.ext[i].ok => prev.ext[i].id \notin DOMAIN compartment_cache

\* the names the first pass wrote into the text in place of an id: what the resolver
\* returned for an occurrence, unless it returned the occurrence's id itself
InsertedNames ==
    LET occ == Occurrences(prev.arg, 1) IN
    {prev.rets[k] : k \in {j \in DOMAIN prev.rets \cap DOMAIN occ :
                              prev.rets[j] # SubSeq(prev.arg, occ[j].idStart, occ[j].end - 1)}}

\* n holds `ocid1.compartment.` and a character of the id class, in any case
HoldsIdToken(n) ==
    \E b \in 1..(Len(n) - Len(W_ocid_prefix)) :
        /\ LowerStr(SubSeq(n, b, b + Len(W_ocid_prefix) - 1)) = W_ocid_prefix
        /\ IsIdChar(n[b + Len(W_ocid_prefix)])

\* n holds a character that is not whitespace
HoldsText(n) == \E i \in DOMAIN n : ~IsSpace(n[i])

\* n ends with the letters of `compartment`, in any case, trailing whitespace aside
EndsWithWord(n) ==
    \E i \in DOMAIN n :
        /\ WordAt(n, i)
        /\ \A j \in (i + Len(W_compartment))..Len(n) : IsSpace(n[j])

\* C12 as stated: when no name written into the text holds an `ocid1.compartment.`
\* id, translating the translated text again gives the same text.
C12_Original_Idempotent ==
    last.op = "translate_again" /\ (\A n \in InsertedNames : ~HoldsIdToken(n))
        => last.ret = last.arg

\* C12 amended: translating the translated text again gives the same text when every
\* id whose lookup failed in the first pass is still unresolved after the second, and
\* every name the first pass wrote into the text holds no `ocid1.compartment.` id,
\* holds a character that is not whitespace and does not end with the letters of
\* `compartment` (in any case, trailing whitespace aside).
C12_IdempotentWhileUnresolved ==
    /\ last.op = "translate_again"
    /\ StillUnresolved
    /\ \A n \in InsertedNames : ~HoldsIdToken(n) /\ HoldsText(n) /\ ~EndsWithWord(n)
    => last.ret = last.arg

\* 'compartment ocid1.compartment.m compartment ocid1.compartment.x': the first pass
\* writes 'My Team' and keeps the id x, whose lookup fails in both passes
C12_Witness ==
    /\ last.op = "translate_again"
    /\ prev.arg = StHead \o NameRef(CompTeam) \o W_compartment \o SP \o CompX
    /\ prev.rets = <<Directory[CompTeam], CompX>>
    /\ InsertedNames = {Directory[CompTeam]}
    /\ Len(prev.ext) = 2
    /\ prev.ext[1].ok
    /\ ~prev.ext[2].ok
    /\ Len(last.ext) = 1
    /\ ~last.ext[1].ok
    /\ last.ret = last.arg

\* C13: every tuple emitted for a statement of policy p is <<p.name, n, translated
\* statement>>, where n is the name get_compartment_name returned for p's compartment
\* when the policy loop reached p: it is resolved by that one call, and all tuples of
\* p carry the same n, whatever the cache holds for the compartment later.
C13_TupleOfPolicy ==
    /\ \A i \in DOMAIN emitted :
          relevant_policies[i][1] = policies[emitted[i][1]].name
    /\ \A i, j \in DOMAIN emitted :
          emitted[i][1] = emitted[j][1] => relevant_policies[i][2] = relevant_policies[j][2]
    /\ last.op = "filter_policy"
          => policy_compartment_name = last.ret /\ last.ret \in ResolvedNames(last.arg)
    /\ last.op = "filter_statement"
          => /\ \A i \in DOMAIN last.ext : Contains(last.arg, last.ext[i].id)
             /\ last.ret # <<>> =>
                  /\ last.ret[1] = relevant_policies[Len(relevant_policies)]
                  /\ last.ret[1] =
                       << policies[emitted[Len(emitted)][1]].name,
                          policy_compartment_name,
                          Rebuilt(last.arg, Occurrences(last.arg, 1), last.rets, 1, FALSE) >>

C13_Witness ==
    /\ FilterReturned
    /\ CompA \in DOMAIN compartment_cache
    /\ \E i, j \in DOMAIN emitted :
          /\ i < j
          /\ emitted[i][1] = emitted[j][1]
          /\ policies[emitted[i][1]].compartment_id = CompA
          /\ relevant_policies[i][2] = CompA
          /\ relevant_policies[j][2] = CompA

\* C14: what the statement loop does for a statement is the same for every order in
\* which the set of group names is iterated: the same tuples, cache and lookups.
C14_GroupOrderIrrelevant ==
    pc = "statement" =>
        LET policy == policies[pidx]
            statement == policy.statements[sidx]
        IN  \A fails \in FailSets(statement) :
            \A o1, o2 \in Orders(group_names) :
                FilterStatement(compartment_cache, policy, policy_compartment_name,
                                statement, o1, fails)
                  = FilterStatement(compartment_cache, policy, policy_compartment_name,
                                    statement, o2, fails)

C14_Witness ==
    /\ pc = "statement"
    /\ group_names = GroupNames
    /\ policies[pidx].statements[sidx] = StAdminsDQ
    /\ MentionsGroup(StAdminsDQ, {GAdmins})
    /\ ~MentionsGroup(StAdminsDQ, {GOps})
    /\ relevant_policies # <<>>

\* C19: a get_compartment_name call whose directory lookup fails leaves the cache as
\* it was and stores nothing for the id; the next call for the same id asks the
\* directory again and, when that lookup succeeds, returns the name and caches it.
C19_FailureNotMemoized ==
    /\ [](last.op = "get_compartment_name" /\ Failed(last.ext)
             => last.arg \notin DOMAIN compartment_cache)
    /\ [](SameIdTwice /\ Failed(prev.ext)
             => /\ Len(last.ext) = 1
                /\ last.ext[1].id = last.arg
                /\ last.ext[1].ok =>
                     /\ last.ret = last.ext[1].name
                     /\ last.arg \in DOMAIN compartment_cache
                     /\ compartment_cache[last.arg] = last.ret)
    /\ [][last'.op = "get_compartment_name" /\ Failed(last'.ext)
             => compartment_cache' = compartment_cache]_vars

C19_Witness ==
    /\ SameIdTwice
    /\ last.arg = CompA
    /\ Failed(prev.ext)
    /\ prev.ret = CompA
    /\ Len(last.ext) = 1
    /\ last.ext[1].ok
    /\ last.ret = Directory[CompA]
    /\ compartment_cache[CompA] = Directory[CompA]

\* the service calls of the last step that are of one of the operations ops
CallsOf(ext, ops) == SelectSeq(ext, LAMBDA c : c.op \in ops)

\* the calls only get_identity_domain_groups_alternative makes
FallbackOps == {"list_groups", "get_group_members"}

\* the group of a list_groups answer with this id
ListedGroup(data, id) == CHOOSE g \in Range(data) : g.id = id

\* C15: get_user_groups_identity_domain first makes the direct get_user lookup.  When
\* that lookup returns, the fallback is not run and the result is the groups whose
\* details the direct lookup fetched (also when it fetched none); when it raises, the
\* fallback runs after it and the result is the fallback's groups alone: the listed
\* groups that have the user among their members, in list order.
C15_DirectThenFallback ==
    last.op = "get_user_groups_identity_domain" =>
        LET direct == CallsOf(last.ext, {"get_group"})
            fetched == SelectSeq(direct, LAMBDA c : c.ok)
            scanned == CallsOf(last.ext, {"get_group_members"})
            held == SelectSeq(scanned, LAMBDA c : c.ok /\ last.arg \in Range(c.data))
        IN  /\ last.ext # <<>>
            /\ last.ext[1].op = "get_user"
            /\ \A i \in DOMAIN last.ext : i > 1 => last.ext[i].op # "get_user"
            /\ (CallsOf(last.ext, FallbackOps) # <<>>) <=> ~last.ext[1].ok
            /\ last.ext[1].ok =>
                 /\ [i \in DOMAIN direct |-> direct[i].id] = last.ext[1].data
                 /\ last.ret = [i \in DOMAIN fetched |->
                                   [name |-> GroupById(fetched[i].id).display_name,
                                    id |-> fetched[i].id, type |-> "identity_domain"]]
            /\ ~last.ext[1].ok =>
                 /\ direct = <<>>
                 /\ last.ext[2].op = "list_groups"
                 /\ \A i \in DOMAIN last.ext : i > 2 => last.ext[i].op = "get_group_members"
                 /\ [i \in DOMAIN scanned |-> scanned[i].id]
                      = [i \in DOMAIN last.ext[2].data |-> last.ext[2].data[i].id]
                 /\ last.ret = [i \in DOMAIN held |->
                                   [name |-> ListedGroup(last.ext[2].data, held[i].id).display_name,
                                    id |-> held[i].id, type |-> "identity_domain"]]

C15_Witness ==
    /\ last.op = "get_user_groups_identity_domain"
    /\ ~last.ext[1].ok
    /\ Len(last.ext) = 4
    /\ ~last.ext[3].ok
    /\ last.ext[4].ok
    /\ last.ret = <<GroupDict(GroupOps)>>

\* the pages a get_identity_domain_users call has asked for start at 1, 101, 201, ...
RequestsInOrder ==
    \A i \in DOMAIN requests :
        /\ requests[i].start_index = 1 + count * (i - 1)
        /\ requests[i].count = count
        /\ i < Len(requests) => requests[i].ok /\ requests[i].n >= count

\* the users of the pages fetched so far, in page order, each once
UsersOfFetchedPages ==
    LET fetched == SelectSeq(requests, LAMBDA r : r.ok)
        total == IF fetched = <<>> THEN 0
                 ELSE count * (Len(fetched) - 1) + fetched[Len(fetched)].n
    IN  /\ Len(users) = total
        /\ \A j \in DOMAIN users : users[j] = UserDict(UserResource(j))

\* C16: get_identity_domain_users asks for the pages at start indices 1, 101, 201, ...
\* in order, goes on only after a full page, stops at the first page that is empty or
\* has fewer than 100 users and returns the users of all fetched pages in page order,
\* each once; a running call reaches its return once the service answers with an
\* empty or short page.
C16_PagesInOrderUntilShort ==
    /\ [](pc \in {"users", "done"} /\ last.op \in {"users_call", "users_page",
                                                     "get_identity_domain_users"}
             => /\ RequestsInOrder
                /\ UsersOfFetchedPages
                /\ last.op = "users_page"
                     => requests[Len(requests)].ok /\ requests[Len(requests)].n >= count
                /\ last.op = "get_identity_domain_users" /\ requests[Len(requests)].ok
                     => /\ requests[Len(requests)].n < count
                        /\ last.ret = users)
    /\ (pc = "users" ~> pc = "done")

C16_Witness ==
    /\ last.op = "get_identity_domain_users"
    /\ Len(requests) = MaxPages
    /\ requests[MaxPages].ok
    /\ requests[MaxPages].n = count - 1
    /\ requests[MaxPages].start_index = 1 + count * (MaxPages - 1)
    /\ Len(last.ret) = count * MaxPages - 1

\* C17: when list_users raises on a page, the first or a later one,
\* get_identity_domain_users returns the empty list, whatever it had collected, and
\* no exception reaches the caller.
C17_ExceptionReturnsEmpty ==
    last.op \in {"users_call", "users_page", "get_identity_domain_users"} =>
        /\ pc # "raised"
        /\ Failed(requests) =>
             /\ last.op = "get_identity_domain_users"
             /\ pc = "done"
             /\ last.ret = <<>>

C17_Witness ==
    /\ last.op = "get_identity_domain_users"
    /\ Len(requests) = 2
    /\ requests[1].ok
    /\ ~requests[2].ok
    /\ Len(users) = count
    /\ last.ret = <<>>

\* C18: detect_user_id_type returns ("legacy", None) for an id that starts with
\* "ocid1.user." and calls no service for it.  For any other id it runs over the
\* active domains in list order, asks each for the user, goes on after a domain
\* whose lookup raises or has no data, returns ("identity_domain", url) for the first
\* domain that has the user, and raises ValueError when it has asked every domain and
\* none had the user.
C18_LegacyOrFirstDomain ==
    last.op = "detect_user_id_type" =>
        IF StartsWith(last.arg, W_user_prefix)
        THEN /\ last.ret = <<"legacy", NoneUrl>>
             /\ last.ext = <<>>
             /\ pc = "done"
        ELSE LET listed == CallsOf(last.ext, {"list_domains"})
                 probes == CallsOf(last.ext, {"get_user"})
                 domains == last.rets
             IN  /\ \A i \in DOMAIN domains : domains[i].lifecycle_state = "ACTIVE"
                 /\ listed # <<>> =>
                      /\ last.ext[1].op = "list_domains"
                      /\ Len(listed) = 1
                      /\ domains = SelectSeq(listed[1].data,
                                             LAMBDA d : d.lifecycle_state = "ACTIVE")
                 /\ Len(probes) <= Len(domains)
                 /\ \A i \in DOMAIN probes : probes[i].id = domains[i].url
                 /\ \A i \in DOMAIN probes : i < Len(probes) => probes[i].data = <<>>
                 /\ pc = "raised" <=> \A i \in DOMAIN probes : probes[i].data = <<>>
                 /\ pc = "raised" => Len(probes) = Len(domains)
                 /\ pc = "done" =>
                      /\ probes # <<>>
                      /\ probes[Len(probes)].ok
                      /\ last.ret = <<"identity_domain", probes[Len(probes)].id>>

C18_Witness ==
    /\ last.op = "detect_user_id_type"
    /\ last.arg = UserShort
    /\ pc = "done"
    /\ Len(last.rets) = 2
    /\ Len(CallsOf(last.ext, {"get_user"})) = 2
    /\ ~CallsOf(last.ext, {"get_user"})[1].ok
    /\ last.ret = <<"identity_domain", DomainDev.url>>

====
